---- MODULE Spec2Model ----
(***************************************************************************)
(* Model of the achievements ticker widget (src/ticker.js): the            *)
(* AchievementsTicker class, the page events that drive it and the DOM     *)
(* elements it reads and writes.                                           *)
(***************************************************************************)
EXTENDS Integers, Sequences, FiniteSets, TLC

VARIABLES
    pc,                 \* position of the startup sequence (lines 199-204, 15-23)
    response,           \* status of the fetch response whose body is being parsed
    achievementsData,   \* this.achievementsData
    tickerTrack,        \* this.tickerTrack: "null" or "track" (the #ticker-track element)
    isLoaded,           \* this.isLoaded
    trackInDoc,         \* the document holds an element with id ticker-track
    children,           \* child nodes of the #ticker-track element
    animationDuration,  \* style.animationDuration of the track ("" = never set)
    animationPlayState, \* style.animationPlayState of the track ("" = never set)
    trackOpacity,       \* style.opacity of the track ("" = never set)
    hoverListeners,     \* mouseenter/mouseleave listener pairs on the track
    resizeListeners,    \* resize listeners of the widget on window
    containerInDoc,     \* the document holds .achievements-ticker-container
    containerOpacity,   \* style.opacity of that container ("" = never set)
    fadeTimer,          \* the 500 ms timeout of startTicker is pending
    innerWidth,         \* window.innerWidth
    lastOp,             \* the last operation of the widget that ran
    lastArg,            \* its argument (the load outcome for "load", which is
                        \* kept until init has rendered)
    snap,               \* the collection before the last addAchievement or before
                        \* the last filterByCategory that was not "all"; whether
                        \* the load overwrote a collection left by earlier calls
    lastPointer,        \* the last pointer event on the track: "enter" or "leave"
    lastPointerHandled, \* the last pointer event whose handler found a track
    resized             \* a resize listener has run since the last render

vars == <<pc, response, achievementsData, tickerTrack, isLoaded, trackInDoc,
          children, animationDuration, animationPlayState, trackOpacity,
          hoverListeners, resizeListeners, containerInDoc, containerOpacity,
          fadeTimer, innerWidth, lastOp, lastArg, snap, lastPointer,
          lastPointerHandled, resized>>

----------------------------------------------------------------------------
(* Bounds *)

MaxLen == 3

MaxListeners == 4

MaxUpdateLen == 2

----------------------------------------------------------------------------
(* Records *)

animationSpeed == 30

RecA == [id |-> "a", text |-> "X", category |-> "c", priority |-> 2]

RecB == [id |-> "b", text |-> "Y", category |-> "c", priority |-> 1]

RecA2 == [id |-> "a", text |-> "Z", category |-> "d", priority |-> 1]

Pool == {RecA, RecB, RecA2}

\* Elements of a payload array that are not records: the number 7 (a
\* primitive has none of the four properties) and an object with an id only.
\* Reading a property an element does not have gives undefined.
Seven == [primitive |-> 7]

OnlyId == [id |-> "q"]

NonRecordArrays == {<<RecA, Seven>>, <<OnlyId>>, <<RecA, Seven, RecB>>}

\* achievement[field] is not undefined.
Has(achievement, field) == field \in DOMAIN achievement

\* The fixed fallback sequence of loadAchievements' catch block.  Each text
\* starts with a pictograph and a space; a string of this module cannot hold
\* the character, which is written by its code point: U+1F3C6 (trophy),
\* U+1F680 (rocket), U+1F4BC (briefcase).
Fallback ==
    << [id |-> "fallback-1",
        text |-> "U+1F3C6 Microsoft Azure Developer Associate (AZ-204) - Scored 828/1000",
        category |-> "certification", priority |-> 1],
       [id |-> "fallback-2",
        text |-> "U+1F680 Created ARIA - AI-Powered Interview Platform",
        category |-> "project", priority |-> 1],
       [id |-> "fallback-3",
        text |-> "U+1F4BC 1.4 Years Experience as Java Full Stack Developer",
        category |-> "experience", priority |-> 1] >>

Ids == {"a", "b", "fallback-2"}

Categories == {"all", "c", "project"}

Widths == {400, 480, 600, 768, 1024}

Statuses == {200, 404, 500}

SeqsUpTo(S, n) == UNION {[1..k -> S] : k \in 0..n}

----------------------------------------------------------------------------
(* Array.prototype.sort((a, b) => a.priority - b.priority): a stable sort *)

\* The comparator.  With an undefined priority the difference is NaN, which
\* sort takes as +0.
Compare(a, b) ==
    IF Has(a, "priority") /\ Has(b, "priority") THEN a.priority - b.priority
    ELSE 0

\* Mutant: a record is placed before the records of equal priority.
RECURSIVE InsertBeforeEqual(_, _)
InsertBeforeEqual(s, r) ==
    IF s = <<>> THEN <<r>>
    ELSE IF Compare(s[Len(s)], r) < 0
         THEN Append(s, r)
         ELSE Append(InsertBeforeEqual(SubSeq(s, 1, Len(s) - 1), r), s[Len(s)])

RECURSIVE InsertByPriority(_, _)
InsertByPriority(s, r) ==
    IF s = <<>> THEN <<r>>
    ELSE IF Compare(s[Len(s)], r) <= 0
         THEN Append(s, r)
         ELSE Append(InsertByPriority(SubSeq(s, 1, Len(s) - 1), r), s[Len(s)])

RECURSIVE sortByPriority(_)
sortByPriority(s) ==
    IF s = <<>> THEN <<>>
    ELSE InsertByPriority(sortByPriority(SubSeq(s, 1, Len(s) - 1)), s[Len(s)])

\* The comparator is a consistent comparison for the elements of s unless an
\* element without a priority (equal to every element) stands beside two
\* elements of different priorities.
Consistent(s) ==
    \/ \A i \in 1..Len(s) : Has(s[i], "priority")
    \/ Cardinality({s[i].priority : i \in {j \in 1..Len(s) : Has(s[j], "priority")}}) <= 1

\* The orders of the elements of s.
Orders(s) == {[i \in 1..Len(s) |-> s[f[i]]] : f \in Permutations(1..Len(s))}

\* The arrays sort can leave: the stable ascending sort, or an
\* implementation-defined order when the comparator is not consistent.
SortOutcomes(s) == IF Consistent(s) THEN {sortByPriority(s)} ELSE Orders(s)

----------------------------------------------------------------------------
(* Renderer: createTickerItems and setupTicker *)

\* The template string `ticker-item priority-${achievement.priority}`.
ClassName(priority) == "ticker-item priority-" \o ToString(priority)

\* setAttribute(name, achievement[field]): an undefined value is written as
\* the string "undefined".
AttributeText(achievement, field) ==
    IF Has(achievement, field) THEN achievement[field] ELSE "undefined"

\* One <div> built by the callback of createTickerItems.  An undefined
\* priority is interpolated as "undefined"; textContent = undefined leaves
\* the element without text.
TickerItem(achievement) ==
    [className |-> IF Has(achievement, "priority")
                   THEN ClassName(achievement.priority)
                   ELSE "ticker-item priority-undefined",
     dataCategory |-> AttributeText(achievement, "category"),
     dataId |-> AttributeText(achievement, "id"),
     textContent |-> IF Has(achievement, "text") THEN achievement.text ELSE "",
     title |-> AttributeText(achievement, "text")]

createTickerItems(data) == [i \in 1..Len(data) |-> TickerItem(data[i])]

\* item.cloneNode(true): a new element with the attributes and text of item.
cloneNode(item) ==
    [className |-> item.className,
     dataCategory |-> item.dataCategory,
     dataId |-> item.dataId,
     textContent |-> item.textContent,
     title |-> item.title]

\* Mutant: the track is not cleared before the items are appended.
TrackContentNotCleared(data) ==
    LET tickerItems == createTickerItems(data)
    IN  children \o tickerItems
                 \o [i \in 1..Len(tickerItems) |-> cloneNode(tickerItems[i])]

\* The children of the track after innerHTML = '' and the two forEach loops.
TrackContent(data) ==
    LET tickerItems == createTickerItems(data)
    IN  tickerItems \o [i \in 1..Len(tickerItems) |-> cloneNode(tickerItems[i])]

\* Mutant: the two thresholds are compared with < instead of <=.
handleResponsiveSpeedStrict(width) ==
    IF width < 480 THEN 15
    ELSE IF width < 768 THEN 20
    ELSE animationSpeed

\* The speed chosen by handleResponsiveSpeed for a viewport width.
handleResponsiveSpeed(width) ==
    IF width <= 480 THEN 15
    ELSE IF width <= 768 THEN 20
    ELSE animationSpeed

\* The template string `${speed}s`.
DurationText(speed) ==
    CASE speed = 15 -> "15s"
      [] speed = 20 -> "20s"
      [] speed = 30 -> "30s"
      [] OTHER -> "?s"

\* setupTicker (with setupEventListeners) when this.achievementsData is data.
setupTicker(data) ==
    IF ~trackInDoc
    THEN /\ tickerTrack' = "null"
         /\ UNCHANGED <<children, animationDuration, hoverListeners, resizeListeners>>
         /\ resized' = FALSE
    ELSE /\ tickerTrack' = "track"
         /\ resized' = FALSE
         /\ children' = TrackContent(data)
         /\ hoverListeners' = hoverListeners + 1
         /\ animationDuration' = DurationText(handleResponsiveSpeed(innerWidth))
         /\ resizeListeners' = resizeListeners + 1

\* Mutant: isLoaded is set whether or not the container exists.
startTickerAlwaysLoaded ==
    /\ IF containerInDoc
       THEN containerOpacity' = "1"
       ELSE UNCHANGED containerOpacity
    /\ isLoaded' = TRUE
    /\ fadeTimer' = TRUE

\* startTicker: fade the container in and arm the 500 ms timeout.
startTicker ==
    /\ IF containerInDoc
       THEN containerOpacity' = "1" /\ isLoaded' = TRUE
       ELSE UNCHANGED <<containerOpacity, isLoaded>>
    /\ fadeTimer' = TRUE

----------------------------------------------------------------------------
(* Loader *)

\* response.ok
ResponseOk(status) == status >= 200 /\ status <= 299

\* The outcomes of fetch() and response.json().  net: the fetch rejected or
\* gave a response; kind: the body is not JSON, is JSON null, or is an object;
\* field: the object's achievements field is absent, falsy, a non-array value,
\* an array holding a null, or an array of records (items).
NoItems == <<>>

Outcome(net, status, kind, field, items) ==
    [net |-> net, status |-> status, kind |-> kind, field |-> field, items |-> items]

Rejected == Outcome("reject", 0, "none", "none", NoItems)

BadStatus(status) == Outcome("response", status, "none", "none", NoItems)

\* The bodies without an achievements array, and the arrays holding a null.
OddBodies ==
    {Outcome("response", 200, "malformed", "none", NoItems),
     Outcome("response", 200, "null", "none", NoItems)}
    \cup {Outcome("response", 200, "object", f, NoItems) :
            f \in {"absent", "falsy", "nonArray", "arrayWithNull"}}

\* A body whose achievements field is an array without a null: of records,
\* or of other elements, which the loader accepts as they are.
Payload(items) == Outcome("response", 200, "object", "array", items)

Threw(before) == {[threw |-> TRUE, data |-> before]}

\* Mutant: a body without the achievements field is treated as a failure.
LoadTryFieldRequired(o, before) ==
    IF o.net = "reject" THEN Threw(before)
    ELSE IF ~ResponseOk(o.status) THEN Threw(before)
    ELSE IF o.kind = "malformed" THEN Threw(before)
    ELSE IF o.kind = "null" THEN Threw(before)
    ELSE IF o.field \in {"absent", "falsy"} THEN Threw(before)
    ELSE IF o.field \in {"nonArray", "arrayWithNull"} THEN Threw(before)
    ELSE {[threw |-> FALSE, data |-> d] : d \in SortOutcomes(o.items)}

\* Mutant: the payload is added to the collection instead of replacing it.
LoadTryMerges(o, before) ==
    IF o.net = "reject" THEN Threw(before)
    ELSE IF ~ResponseOk(o.status) THEN Threw(before)
    ELSE IF o.kind = "malformed" THEN Threw(before)
    ELSE IF o.kind = "null" THEN Threw(before)
    ELSE IF o.field \in {"absent", "falsy"} THEN {[threw |-> FALSE, data |-> <<>>]}
    ELSE IF o.field \in {"nonArray", "arrayWithNull"} THEN Threw(before)
    ELSE {[threw |-> FALSE, data |-> d] : d \in SortOutcomes(before \o o.items)}

\* The try block of loadAchievements (lines 26-41): the ways it can end, each
\* with whether it threw and this.achievementsData at its end (when it threw
\* after the assignment of line 32, the value is overwritten by the catch
\* block).
LoadTry(o, before) ==
    IF o.net = "reject" THEN Threw(before)
    ELSE IF ~ResponseOk(o.status) THEN Threw(before)
    ELSE IF o.kind = "malformed" THEN Threw(before)
    ELSE IF o.kind = "null" THEN Threw(before)
    ELSE IF o.field \in {"absent", "falsy"} THEN {[threw |-> FALSE, data |-> <<>>]}
    ELSE IF o.field \in {"nonArray", "arrayWithNull"} THEN Threw(before)
    ELSE {[threw |-> FALSE, data |-> d] : d \in SortOutcomes(o.items)}

\* Mutant: no catch block, the error reaches init.
loadAchievementsNoCatch(o, before) == LoadTry(o, before)

\* loadAchievements: the try block, and the catch block installing the fallback.
loadAchievements(o, before) ==
    {IF t.threw THEN [threw |-> FALSE, data |-> Fallback] ELSE t :
        t \in LoadTry(o, before)}

----------------------------------------------------------------------------
(* History kept for the properties: the last operation and the state before
   the last addAchievement *)

\* The argument of the last operation: the list of updateAchievements, the
\* record of addAchievement, the id of removeAchievement, the category of
\* filterByCategory, the outcome of the load; the other fields are blank.
NoRecord == [id |-> "", text |-> "", category |-> "", priority |-> 0]

NoArg ==
    [list |-> <<>>, record |-> NoRecord, id |-> "", category |-> "",
     outcome |-> Outcome("none", 0, "none", "none", NoItems)]

ListArg(list) == [NoArg EXCEPT !.list = list]

RecordArg(record) == [NoArg EXCEPT !.record = record]

IdArg(id) == [NoArg EXCEPT !.id = id]

CategoryArg(category) == [NoArg EXCEPT !.category = category]

OutcomeArg(o) == [NoArg EXCEPT !.outcome = o]

NoSnap == [phase |-> "none", data |-> <<>>, rendered |-> FALSE]

\* loadAchievements has returned and init's continuation has not run yet: the
\* two are separate microtask jobs, and only other microtasks (of the host
\* page) run between them, no timer and no event.
BetweenJobs == pc \in {"loaded", "loadThrew"}

Note(op, arg, s) ==
    /\ lastOp' = op
    /\ lastArg' = IF BetweenJobs THEN [arg EXCEPT !.outcome = lastArg.outcome] ELSE arg
    /\ snap' = s

\* The instance exists (window.achievementsTicker is set) from the end of the
\* constructor on; the host page can call its public methods from then on.
Constructed ==
    pc \in {"fetching", "parsing", "loaded", "loadThrew", "ready", "initFailed"}

\* Every successful render adds a resize listener; the count is capped, and
\* one render is kept for the initial one while the load is pending.
CanRender == resizeListeners < MaxListeners - (IF pc = "ready" THEN 0 ELSE 1)

----------------------------------------------------------------------------
(* State *)

Init ==
    /\ pc = "uninit"
    /\ response = 0
    /\ achievementsData = <<>>
    /\ tickerTrack = "null"
    /\ isLoaded = FALSE
    /\ trackInDoc \in BOOLEAN
    /\ children = <<>>
    /\ animationDuration = ""
    /\ animationPlayState = ""
    /\ trackOpacity = ""
    /\ hoverListeners = 0
    /\ resizeListeners = 0
    /\ containerInDoc \in BOOLEAN
    /\ containerOpacity = ""
    /\ fadeTimer = FALSE
    /\ innerWidth \in Widths
    /\ lastOp = "none"
    /\ lastArg = NoArg
    /\ snap = NoSnap
    /\ lastPointer = "none"
    /\ lastPointerHandled = "none"
    /\ resized = FALSE

----------------------------------------------------------------------------
(* Startup: the DOMContentLoaded handler, the constructor and init *)

\* The DOMContentLoaded handler arms the 1000 ms timeout.
DOMContentLoaded ==
    /\ pc = "uninit"
    /\ pc' = "delay"
    /\ UNCHANGED <<response, achievementsData, tickerTrack, isLoaded, trackInDoc,
                   children, animationDuration, animationPlayState, trackOpacity,
                   hoverListeners, resizeListeners, containerInDoc, containerOpacity,
                   fadeTimer, innerWidth, lastOp, lastArg, snap,
                   lastPointer, lastPointerHandled, resized>>

\* The timeout fires: the constructor runs and init runs up to the fetch.
Construct ==
    /\ pc = "delay"
    /\ pc' = "fetching"
    /\ achievementsData' = <<>>
    /\ tickerTrack' = "null"
    /\ isLoaded' = FALSE
    /\ UNCHANGED <<response, trackInDoc, children, animationDuration,
                   animationPlayState, trackOpacity, hoverListeners, resizeListeners,
                   containerInDoc, containerOpacity, fadeTimer, innerWidth,
                   lastOp, lastArg, snap, lastPointer, lastPointerHandled, resized>>

\* The continuation of loadAchievements once the fetch or the parse has
\* settled with outcome o: the rest of the try block, or the catch block.
\* init, which awaits the loader, goes on in a later job.
LoadSettle(o) ==
    \E r \in loadAchievements(o, achievementsData) :
        /\ achievementsData' = r.data
        /\ response' = 0
        /\ pc' = IF r.threw THEN "loadThrew" ELSE "loaded"
        /\ Note("load", OutcomeArg(o),
                [phase |-> IF achievementsData \in {<<>>, r.data}
                           THEN "loaded" ELSE "overwrote",
                 data |-> <<>>, rendered |-> tickerTrack # "null"])
        /\ UNCHANGED <<tickerTrack, isLoaded, trackInDoc, children,
                       animationDuration, animationPlayState, trackOpacity,
                       hoverListeners, resizeListeners, containerInDoc,
                       containerOpacity, fadeTimer, innerWidth, lastPointer,
                       lastPointerHandled, resized>>

\* The fetch rejects (a network error).
FetchReject ==
    /\ pc = "fetching"
    /\ LoadSettle(Rejected)

\* The fetch resolves with a response: a non-2xx status throws at once, a 2xx
\* status starts response.json().
FetchResolve ==
    /\ pc = "fetching"
    /\ \E status \in Statuses :
          IF ResponseOk(status)
          THEN /\ pc' = "parsing"
               /\ response' = status
               /\ UNCHANGED <<achievementsData, tickerTrack, isLoaded, trackInDoc,
                              children, animationDuration, animationPlayState,
                              trackOpacity, hoverListeners, resizeListeners,
                              containerInDoc, containerOpacity, fadeTimer,
                              innerWidth, lastOp, lastArg, snap, lastPointer,
                              lastPointerHandled, resized>>
          ELSE LoadSettle(BadStatus(status))

\* response.json() settles: it rejects (malformed) or resolves with the body.
JsonSettle(bodies) ==
    /\ pc = "parsing"
    /\ \E o \in bodies : LoadSettle([o EXCEPT !.status = response])

\* The continuation of init after `await this.loadAchievements()`: setupTicker
\* and startTicker on the collection as it is by then, or init's catch block.
InitContinue ==
    /\ BetweenJobs
    /\ IF pc = "loadThrew"
       THEN /\ pc' = "initFailed"
            /\ UNCHANGED <<tickerTrack, children, animationDuration,
                           hoverListeners, resizeListeners, isLoaded,
                           containerOpacity, fadeTimer, resized>>
       ELSE /\ pc' = "ready"
            /\ setupTicker(achievementsData)
            /\ startTicker
    /\ UNCHANGED <<response, achievementsData, trackInDoc, animationPlayState,
                   trackOpacity, containerInDoc, innerWidth, lastOp, lastArg, snap,
                   lastPointer, lastPointerHandled>>

\* The 500 ms timeout of startTicker fires.
FadeTimeout ==
    /\ ~BetweenJobs
    /\ fadeTimer
    /\ fadeTimer' = FALSE
    /\ trackOpacity' = IF tickerTrack # "null" THEN "1" ELSE trackOpacity
    /\ UNCHANGED <<pc, response, achievementsData, tickerTrack, isLoaded, trackInDoc,
                   children, animationDuration, animationPlayState,
                   hoverListeners, resizeListeners, containerInDoc, containerOpacity,
                   innerWidth, lastOp, lastArg, snap,
                   lastPointer, lastPointerHandled, resized>>

----------------------------------------------------------------------------
(* Mutation API *)

\* Mutant: the predicate is inverted, the records with the id are kept.
RemoveAllButId(data, achievementId) ==
    SelectSeq(data, LAMBDA achievement :
                        Has(achievement, "id") /\ achievement.id = achievementId)

\* Mutant: only the first record with the id is removed.
RECURSIVE RemoveFirstById(_, _)
RemoveFirstById(data, achievementId) ==
    IF data = <<>> THEN <<>>
    ELSE IF Has(Head(data), "id") /\ Head(data).id = achievementId THEN Tail(data)
    ELSE <<Head(data)>> \o RemoveFirstById(Tail(data), achievementId)

\* filter(achievement => achievement.id !== achievementId)
RemoveById(data, achievementId) ==
    SelectSeq(data, LAMBDA achievement :
                        ~Has(achievement, "id") \/ achievement.id # achievementId)

\* Mutant: "all" is treated as a category like any other.
FilterCategoryNoSentinel(data, category) ==
    SelectSeq(data, LAMBDA achievement :
                        Has(achievement, "category") /\ achievement.category = category)

\* The filteredData of filterByCategory.
FilterCategory(data, category) ==
    IF category = "all" THEN data
    ELSE SelectSeq(data, LAMBDA achievement :
                             Has(achievement, "category")
                                /\ achievement.category = category)

\* Mutant: the record is appended and the collection is not re-sorted.
PushOnly(data, achievement) == {Append(data, achievement)}

\* Mutant: the record is inserted by priority into the collection as it is.
InsertOnly(data, achievement) == {InsertByPriority(data, achievement)}

\* Append and re-sort, as addAchievement does: the arrays sort can leave.
PushAndSort(data, achievement) == SortOutcomes(Append(data, achievement))

MutationFrame ==
    UNCHANGED <<pc, response, isLoaded, trackInDoc, animationPlayState, trackOpacity,
                containerInDoc, containerOpacity, fadeTimer, innerWidth,
                lastPointer, lastPointerHandled>>

\* Mutant: the given list is sorted by priority before it is installed.
updateAchievementsSorted(newAchievements) ==
    /\ Constructed /\ CanRender
    /\ achievementsData' = sortByPriority(newAchievements)
    /\ setupTicker(sortByPriority(newAchievements))
    /\ Note("update", ListArg(newAchievements), NoSnap)
    /\ MutationFrame

updateAchievements(newAchievements) ==
    /\ Constructed /\ CanRender
    /\ achievementsData' = newAchievements
    /\ setupTicker(newAchievements)
    /\ Note("update", ListArg(newAchievements), NoSnap)
    /\ MutationFrame

addAchievement(achievement) ==
    /\ Constructed /\ CanRender
    /\ Len(achievementsData) < MaxLen
    /\ \E sorted \in PushAndSort(achievementsData, achievement) :
          /\ achievementsData' = sorted
          /\ setupTicker(sorted)
    /\ Note("add", RecordArg(achievement),
            [phase |-> "added", data |-> achievementsData,
             rendered |-> (tickerTrack # "null"
                             /\ children = TrackContent(achievementsData))])
    /\ MutationFrame

removeAchievement(achievementId) ==
    /\ Constructed /\ CanRender
    /\ achievementsData' = RemoveById(achievementsData, achievementId)
    /\ setupTicker(RemoveById(achievementsData, achievementId))
    /\ Note("remove", IdArg(achievementId),
            IF snap.phase = "added" /\ lastArg.record.id = achievementId
            THEN [snap EXCEPT !.phase = "removed"] ELSE NoSnap)
    /\ MutationFrame

\* Mutant: without a track element the call returns before the collection
\* is replaced.
filterByCategoryTrackFirst(category) ==
    /\ Constructed /\ CanRender
    /\ achievementsData' =
          IF trackInDoc THEN FilterCategory(achievementsData, category)
          ELSE achievementsData
    /\ setupTicker(FilterCategory(achievementsData, category))
    /\ Note("filter", CategoryArg(category),
            IF category # "all"
            THEN [phase |-> "filtered", data |-> achievementsData,
                  rendered |-> tickerTrack # "null"]
            ELSE IF snap.phase \in {"filtered", "refiltered"}
            THEN [snap EXCEPT !.phase = "refiltered"]
            ELSE NoSnap)
    /\ MutationFrame

\* filterByCategory ends in updateAchievements(filteredData).
filterByCategory(category) ==
    /\ Constructed /\ CanRender
    /\ achievementsData' = FilterCategory(achievementsData, category)
    /\ setupTicker(FilterCategory(achievementsData, category))
    /\ Note("filter", CategoryArg(category),
            IF category # "all"
            THEN [phase |-> "filtered", data |-> achievementsData,
                  rendered |-> tickerTrack # "null"]
            ELSE IF snap.phase \in {"filtered", "refiltered"}
            THEN [snap EXCEPT !.phase = "refiltered"]
            ELSE NoSnap)
    /\ MutationFrame

Update(lists) == \E l \in lists : updateAchievements(l)

Add(records) == \E r \in records : addAchievement(r)

Remove(ids) == \E id \in ids : removeAchievement(id)

Filter(categories) == \E c \in categories : filterByCategory(c)

----------------------------------------------------------------------------
(* Events of the page *)

EventFrame ==
    UNCHANGED <<pc, response, achievementsData, tickerTrack, isLoaded, children,
                trackOpacity, hoverListeners, resizeListeners, containerInDoc,
                containerOpacity, fadeTimer, lastOp, lastArg, snap>>

\* Mutant: the play-state is written without looking at this.tickerTrack.
pauseAnimationUnchecked == animationPlayState' = "paused"

\* pauseAnimation, run by each mouseenter listener of the track.
pauseAnimation ==
    animationPlayState' = IF tickerTrack # "null" THEN "paused" ELSE animationPlayState

\* Mutant: resumeAnimation leaves the play-state as it is.
resumeAnimationNoop == animationPlayState' = animationPlayState

\* resumeAnimation, run by each mouseleave listener of the track.
resumeAnimation ==
    animationPlayState' = IF tickerTrack # "null" THEN "running" ELSE animationPlayState

MouseEnter ==
    /\ ~BetweenJobs
    /\ trackInDoc /\ hoverListeners > 0
    /\ pauseAnimation
    /\ lastPointer' = "enter"
    /\ lastPointerHandled' = IF tickerTrack # "null" THEN "enter" ELSE lastPointerHandled
    /\ UNCHANGED <<trackInDoc, animationDuration, innerWidth, resized>>
    /\ EventFrame

MouseLeave ==
    /\ ~BetweenJobs
    /\ trackInDoc /\ hoverListeners > 0
    /\ resumeAnimation
    /\ lastPointer' = "leave"
    /\ lastPointerHandled' = IF tickerTrack # "null" THEN "leave" ELSE lastPointerHandled
    /\ UNCHANGED <<trackInDoc, animationDuration, innerWidth, resized>>
    /\ EventFrame

\* The viewport is resized to width; every resize listener of the widget
\* runs handleResponsiveSpeed.
Resize(widths) ==
    \E width \in widths :
        /\ ~BetweenJobs
        /\ innerWidth' = width
        /\ animationDuration' =
              IF resizeListeners > 0 /\ tickerTrack # "null"
              THEN DurationText(handleResponsiveSpeed(width))
              ELSE animationDuration
        /\ resized' = (resized \/ resizeListeners > 0)
        /\ UNCHANGED <<trackInDoc, animationPlayState, lastPointer, lastPointerHandled>>
        /\ EventFrame

\* The host page takes the #ticker-track element out of the document, or
\* puts it (back) in.
HostRemoveTrack ==
    /\ trackInDoc
    /\ trackInDoc' = FALSE
    /\ UNCHANGED <<animationDuration, animationPlayState, innerWidth,
                   lastPointer, lastPointerHandled,
                   resized>>
    /\ EventFrame

HostInsertTrack ==
    /\ ~trackInDoc
    /\ trackInDoc' = TRUE
    /\ UNCHANGED <<animationDuration, animationPlayState, innerWidth,
                   lastPointer, lastPointerHandled,
                   resized>>
    /\ EventFrame

----------------------------------------------------------------------------
(* Specifications *)

\* The whole widget on a page that keeps its track element once it has one:
\* every handler and event, the mutation calls and the payload drawn from a
\* few values.
FewLists == {<<RecA, RecB>>}

FewBodies == OddBodies \cup {Payload(<<RecA, RecB>>), Payload(<<RecA, Seven>>)}

Next ==
    \/ DOMContentLoaded
    \/ Construct
    \/ FetchReject
    \/ FetchResolve
    \/ JsonSettle(FewBodies)
    \/ InitContinue
    \/ FadeTimeout
    \/ Update(FewLists)
    \/ Add({RecB})
    \/ Remove({"a"})
    \/ Filter({"all", "c"})
    \/ MouseEnter
    \/ MouseLeave
    \/ Resize(Widths)
    \/ HostInsertTrack

Spec == Init /\ [][Next]_vars

\* The same on a page that may also take the track element out of the
\* document and put it back, with one record in the payload and in the
\* arguments of the calls, and one resize of the viewport.
NextDetach ==
    \/ DOMContentLoaded
    \/ Construct
    \/ FetchReject
    \/ FetchResolve
    \/ JsonSettle({Payload(<<RecB>>)})
    \/ InitContinue
    \/ FadeTimeout
    \/ Update({<<RecB>>})
    \/ Add({RecB})
    \/ Remove({"b"})
    \/ Filter({"c"})
    \/ MouseEnter
    \/ MouseLeave
    \/ Resize({480})
    \/ HostRemoveTrack
    \/ HostInsertTrack

InitDetach == Init /\ innerWidth = 1024 /\ containerInDoc = TRUE

SpecDetach == InitDetach /\ [][NextDetach]_vars

\* The collection and its rendering under the mutation calls: startup with a
\* few payloads, and the mutation calls with lists, records, ids and
\* categories drawn from every value of the bounded sets, on a page with the
\* fade-in container and one viewport width.  Pointer, resize and timer
\* events are left out: they leave achievementsData and children unchanged
\* (EventFrame).
CollectionBodies ==
    {Payload(<<RecA, RecB>>), Payload(<<RecA2, RecB>>), Payload(<<RecA, Seven>>)}

\* The lists given to updateAchievements: sorted and unsorted ones, with and
\* without a repeated record.
UpdateLists == SeqsUpTo({RecA, RecB}, MaxUpdateLen)

NextCollection ==
    \/ DOMContentLoaded
    \/ Construct
    \/ FetchReject
    \/ FetchResolve
    \/ JsonSettle(CollectionBodies)
    \/ InitContinue
    \/ Update(UpdateLists)
    \/ Add(Pool)
    \/ Remove(Ids)
    \/ Filter(Categories)
    \/ HostInsertTrack

SpecCollection == InitDetach /\ [][NextCollection]_vars

\* The load: startup with every outcome of the fetch and the parse, the
\* payloads drawn from every value of the bounded sets, and a few mutation
\* calls, which the host may make while the load is pending and before init
\* goes on.
Lists == UpdateLists \cup {<<RecB, RecA2>>, <<RecA2, RecB>>}

Bodies == OddBodies \cup {Payload(l) : l \in Lists \cup NonRecordArrays}

NextLoader ==
    \/ DOMContentLoaded
    \/ Construct
    \/ FetchReject
    \/ FetchResolve
    \/ JsonSettle(Bodies)
    \/ InitContinue
    \/ Update(FewLists)
    \/ Add({RecB})
    \/ Remove({"a"})
    \/ Filter({"c"})
    \/ HostInsertTrack

SpecLoader == InitDetach /\ [][NextLoader]_vars

\* Startup with the page's scheduling: the DOMContentLoaded event and the
\* startup timeout fire, the fetch and the body parse settle, and the job
\* that continues init runs.  The host may call the mutation methods at any
\* time from construction on; pointer and resize events are left out, they
\* leave pc unchanged (EventFrame).
NextLive ==
    \/ DOMContentLoaded
    \/ Construct
    \/ FetchReject
    \/ FetchResolve
    \/ JsonSettle(FewBodies)
    \/ InitContinue
    \/ FadeTimeout
    \/ Update(FewLists)
    \/ Add({RecB})
    \/ Remove({"a"})
    \/ Filter({"c"})
    \/ HostInsertTrack

SpecLive ==
    /\ Init /\ [][NextLive]_vars
    /\ WF_vars(DOMContentLoaded)
    /\ WF_vars(Construct)
    /\ WF_vars(FetchReject \/ FetchResolve)
    /\ WF_vars(JsonSettle(FewBodies))
    /\ WF_vars(InitContinue)

----------------------------------------------------------------------------
(* Properties *)

\* What an element of the strip shows, read back from its attributes.
Priorities == 0..9

HasPriority(el) ==
    \E p \in Priorities : el.className = "ticker-item priority-" \o ToString(p)

ItemPriority(el) ==
    CHOOSE p \in Priorities : el.className = "ticker-item priority-" \o ToString(p)

\* Every element of data has a priority, as an AchievementRecord does.
HavePriority(data) == \A i \in 1..Len(data) : Has(data[i], "priority")

\* The element shows x: a record by its four properties, another element by
\* "undefined" in their places and no text.
Shows(el, x) ==
    /\ el.className = IF Has(x, "priority")
                      THEN "ticker-item priority-" \o ToString(x.priority)
                      ELSE "ticker-item priority-undefined"
    /\ el.dataCategory = IF Has(x, "category") THEN x.category ELSE "undefined"
    /\ el.dataId = IF Has(x, "id") THEN x.id ELSE "undefined"
    /\ el.textContent = IF Has(x, "text") THEN x.text ELSE ""
    /\ el.title = IF Has(x, "text") THEN x.text ELSE "undefined"

\* The strip holds the records of data, in order, twice and nothing else.
StripShowsTwice(strip, data) ==
    /\ Len(strip) = 2 * Len(data)
    /\ \A i \in 1..Len(data) :
          Shows(strip[i], data[i]) /\ Shows(strip[Len(data) + i], data[i])

\* A step that is a call of one of the four mutation methods.
MutationCall ==
    \/ lastOp' = "update" /\ updateAchievements(lastArg'.list)
    \/ lastOp' = "add" /\ addAchievement(lastArg'.record)
    \/ lastOp' = "remove" /\ removeAchievement(lastArg'.id)
    \/ lastOp' = "filter" /\ filterByCategory(lastArg'.category)

\* A step that ends in a render: a mutation call, or init going on after the
\* load.
RenderCall == MutationCall \/ InitContinue

\* C1: every render that finds the track element (the initial one and the
\* one ending each mutation call) leaves exactly 2 x |collection| children:
\* the records of the current collection in collection order, then the same
\* sequence again, and nothing left over from an earlier render; the track
\* stays so until the collection is next assigned.
C1_Duplication ==
    /\ [][(RenderCall /\ trackInDoc) =>
             (tickerTrack' = "track"
                /\ StripShowsTwice(children', achievementsData'))]_vars
    /\ []((tickerTrack = "track" /\ ~BetweenJobs) =>
             StripShowsTwice(children, achievementsData))

\* An addAchievement then removeAchievement has re-rendered a strip that was
\* longer before: only the two copies of the current collection are there.
C1_Witness ==
    /\ tickerTrack = "track"
    /\ snap.phase = "removed" /\ snap.rendered
    /\ Len(achievementsData) = 1
    /\ Len(children) = 2
    /\ Len(snap.data) = 2

\* The elements of data that have a priority are in non-decreasing order.
SortedByPriority(data) ==
    \A i, j \in 1..Len(data) :
        (i < j /\ Has(data[i], "priority") /\ Has(data[j], "priority")) =>
            data[i].priority <= data[j].priority

\* Each of the two copies of the strip is in non-decreasing priority order.
StripSorted(strip) ==
    LET n == Len(strip) \div 2
    IN  \A i, j \in 1..n :
           (i < j /\ HasPriority(strip[i]) /\ HasPriority(strip[j])) =>
              /\ ItemPriority(strip[i]) <= ItemPriority(strip[j])
              /\ ItemPriority(strip[n + i]) <= ItemPriority(strip[n + j])

\* C2 as claimed: after any render, whatever operations led to it, each copy
\* of the strip is in non-decreasing priority order.
C2_AlwaysSorted == tickerTrack = "track" => StripSorted(children)

\* The call keeps or establishes priority order: addAchievement sorts records
\* that all have a priority; removeAchievement and filterByCategory ran on a
\* sorted collection; updateAchievements was given a sorted list.
OrderKept ==
    \/ lastOp' = "add" /\ HavePriority(achievementsData')
    \/ lastOp' \in {"remove", "filter"} /\ SortedByPriority(achievementsData)
    \/ lastOp' = "update" /\ SortedByPriority(lastArg'.list)

\* C2, amended: the rendered strip is in non-decreasing priority order within
\* each copy after the initial render of the collection the load left and
\* after addAchievement, when the records all have a priority; after
\* removeAchievement and filterByCategory when the collection was sorted
\* before the call; and after updateAchievements when the given list is sorted.
C2_SortedWhenOrderKept ==
    /\ [][(MutationCall /\ tickerTrack' = "track" /\ OrderKept) =>
             StripSorted(children')]_vars
    /\ [][(InitContinue /\ tickerTrack' = "track" /\ lastOp = "load"
             /\ HavePriority(achievementsData)) =>
             StripSorted(children')]_vars

\* addAchievement has re-sorted a collection with both priorities and
\* rendered it.
C2_Witness ==
    /\ tickerTrack = "track"
    /\ lastOp = "add"
    /\ Len(children) = 6
    /\ ItemPriority(children[1]) = 1
    /\ ItemPriority(children[3]) = 2
    /\ ~SortedByPriority(snap.data)

\* The load outcomes: the fetch rejected, the status is not 2xx, the body is
\* not JSON; the body is JSON of another shape; the achievements field is
\* missing.
FetchFailed(o) ==
    \/ o.net = "reject"
    \/ o.net = "response" /\ ~(o.status \in 200..299)
    \/ o.net = "response" /\ o.status \in 200..299 /\ o.kind = "malformed"

WrongShape(o) ==
    /\ o.net = "response" /\ o.status \in 200..299
    /\ \/ o.kind = "null"
       \/ o.kind = "object" /\ o.field \in {"nonArray", "arrayWithNull"}

FieldMissing(o) ==
    /\ o.net = "response" /\ o.status \in 200..299
    /\ o.kind = "object" /\ o.field \in {"absent", "falsy"}

HasArray(o) ==
    /\ o.net = "response" /\ o.status \in 200..299
    /\ o.kind = "object" /\ o.field = "array"

IdsOf(data) == [i \in 1..Len(data) |-> AttributeText(data[i], "id")]

TextsOf(strip) == [i \in 1..Len(strip) |-> strip[i].textContent]

\* loadAchievements has returned normally and init has not failed.
LoadReturned == pc \in {"loaded", "ready"}

\* C3: when the fetch rejects, the status is not 2xx or the body cannot be
\* parsed, the load raises nothing (init goes on), the collection is
\* fallback-1, fallback-2, fallback-3, and init's render of it shows it.
C3_FallbackOnFetchFailure ==
    (lastOp = "load" /\ FetchFailed(lastArg.outcome)) =>
        /\ LoadReturned
        /\ Len(achievementsData) >= 3
        /\ IdsOf(achievementsData) = <<"fallback-1", "fallback-2", "fallback-3">>
        /\ achievementsData = Fallback
        /\ (pc = "ready" /\ tickerTrack = "track") =>
              StripShowsTwice(children, Fallback)

\* A response with status 500 has been answered by the fallback strip.
C3_Witness ==
    /\ lastOp = "load" /\ lastArg.outcome.net = "response" /\ lastArg.outcome.status = 500
    /\ pc = "ready"
    /\ tickerTrack = "track"
    /\ Len(children) = 6
    /\ children[1].dataId = "fallback-1"
    /\ children[1].textContent = Fallback[1].text

\* C4 as claimed: every listed failure, a missing achievements field among
\* them, leaves the fallback sequence, so the collection is never empty
\* after the load.
C4_FallbackOnEveryListedFailure ==
    (lastOp = "load"
       /\ (FetchFailed(lastArg.outcome) \/ WrongShape(lastArg.outcome) \/ FieldMissing(lastArg.outcome))) =>
        /\ achievementsData = Fallback
        /\ achievementsData # <<>>

\* C4, amended: a network error, a non-success status and a malformed body
\* (not JSON, JSON null, a truthy achievements value that is not an array, an
\* array holding a null) leave the fallback sequence, so the collection the
\* Loader leaves is non-empty; a body whose achievements field is missing (or
\* falsy) leaves the empty collection and an empty strip; an achievements
\* array without a null is loaded as it is, whatever its elements: the
\* collection is the elements of the array in some order, not the fallback.
C4_FallbackUnlessFieldMissing ==
    lastOp = "load" =>
        /\ (FetchFailed(lastArg.outcome) \/ WrongShape(lastArg.outcome)) =>
              (achievementsData = Fallback /\ achievementsData # <<>>)
        /\ FieldMissing(lastArg.outcome) =>
              /\ achievementsData = <<>>
              /\ (pc = "ready" /\ tickerTrack = "track") => children = <<>>
        /\ HasArray(lastArg.outcome) =>
              /\ achievementsData \in Orders(lastArg.outcome.items)
              /\ achievementsData # Fallback
              /\ (pc = "ready" /\ tickerTrack = "track") =>
                    StripShowsTwice(children, achievementsData)

\* A body without the achievements field has been rendered: the strip is empty.
C4_Witness ==
    /\ lastOp = "load" /\ FieldMissing(lastArg.outcome) /\ lastArg.outcome.field = "absent"
    /\ pc = "ready"
    /\ tickerTrack = "track"
    /\ achievementsData = <<>>
    /\ children = <<>>

\* A body whose achievements array holds an object with an id only has been
\* loaded and rendered as it is.
C4_NonRecordLoaded ==
    /\ lastOp = "load" /\ lastArg.outcome.items = <<OnlyId>>
    /\ pc = "ready" /\ tickerTrack = "track"
    /\ achievementsData = <<OnlyId>>
    /\ Len(children) = 2
    /\ children[1].className = "ticker-item priority-undefined"
    /\ children[1].dataId = "q"

HoldsId(data, id) == \E i \in 1..Len(data) : Has(data[i], "id") /\ data[i].id = id

\* C5 as claimed: addAchievement(r) then removeAchievement(r.id) restores
\* the strip shown before the add, whatever the collection of records was.
C5_RoundTripAlways ==
    (snap.phase = "removed" /\ snap.rendered /\ tickerTrack = "track"
       /\ HavePriority(snap.data)) =>
        StripShowsTwice(children, snap.data)

\* C5, amended: addAchievement(r) then removeAchievement(r.id) restores the
\* collection, and the strip where it showed the collection before the add,
\* when the collection held no record with r's id and its records all had a
\* priority and were in non-decreasing priority order.
C5_RoundTripWhenSortedAndFresh ==
    (snap.phase = "removed" /\ ~HoldsId(snap.data, lastArg.id)
       /\ HavePriority(snap.data) /\ SortedByPriority(snap.data)) =>
        /\ achievementsData = snap.data
        /\ (snap.rendered /\ tickerTrack = "track") =>
              StripShowsTwice(children, snap.data)

\* A record was added between two records of a sorted collection and then
\* removed by its id: the strip shows the two prior records again.
C5_Witness ==
    /\ snap.phase = "removed" /\ snap.rendered /\ tickerTrack = "track"
    /\ lastOp = "remove" /\ lastArg.id = "b"
    /\ snap.data = <<RecA2, RecA>>
    /\ TextsOf(children) = <<"Z", "X", "Z", "X">>

KeepCategory(data, category) ==
    SelectSeq(data, LAMBDA x : Has(x, "category") /\ x.category = category)

\* C6: filterByCategory(c) with c other than "all" leaves exactly the prior
\* records of category c, in prior order; filterByCategory("all") leaves the
\* collection as it is, so after a filter that dropped records a following
\* "all" renders only what remained, never the records dropped before.
C6_FilterIsDestructive ==
    [][/\ (lastOp' = "filter" /\ filterByCategory(lastArg'.category)) =>
             achievementsData' =
                IF lastArg'.category = "all" THEN achievementsData
                ELSE KeepCategory(achievementsData, lastArg'.category)
       /\ snap'.phase \in {"filtered", "refiltered"} =>
             /\ \E c \in Categories \ {"all"} :
                   achievementsData' = KeepCategory(snap'.data, c)
             /\ tickerTrack' = "track" =>
                   StripShowsTwice(children', achievementsData')]_vars

\* filterByCategory("all") has run after a filter that dropped records: the
\* strip shows only the record that remained.
C6_Witness ==
    /\ snap.phase = "refiltered" /\ snap.rendered /\ tickerTrack = "track"
    /\ lastOp = "filter" /\ lastArg.category = "all"
    /\ snap.data = Fallback
    /\ Len(achievementsData) = 1
    /\ TextsOf(children) = <<Fallback[2].text, Fallback[2].text>>

\* The elements of data with priority p, in order.
OfPriority(data, p) ==
    SelectSeq(data, LAMBDA x : Has(x, "priority") /\ x.priority = p)

\* data is the stable ascending sort of the records items: sorted, and for
\* every priority the records of that priority are those of items in the
\* same order.
IsStableSortOf(data, items) ==
    /\ Len(data) = Len(items)
    /\ HavePriority(data)
    /\ SortedByPriority(data)
    /\ \A p \in {items[i].priority : i \in 1..Len(items)} :
          OfPriority(data, p) = OfPriority(items, p)

\* C7: after a successful fetch the collection is the stable ascending sort
\* by priority of the records of the payload's achievements array, or empty
\* when the field is absent; the payload [a(priority 2), b(priority 1)]
\* renders as b, a, b, a.
C7_LoadSortsPayload ==
    lastOp = "load" =>
        /\ (HasArray(lastArg.outcome) /\ HavePriority(lastArg.outcome.items)) =>
              /\ LoadReturned
              /\ IsStableSortOf(achievementsData, lastArg.outcome.items)
              /\ (pc = "ready" /\ tickerTrack = "track"
                    /\ lastArg.outcome.items = <<RecA, RecB>>) =>
                    TextsOf(children) = <<"Y", "X", "Y", "X">>
        /\ (FieldMissing(lastArg.outcome) /\ lastArg.outcome.field = "absent") =>
              achievementsData = <<>>

\* The payload [a(priority 2), b(priority 1)] has been loaded and rendered.
C7_Witness ==
    /\ lastOp = "load" /\ HasArray(lastArg.outcome)
    /\ lastArg.outcome.items = <<RecA, RecB>>
    /\ pc = "ready"
    /\ tickerTrack = "track"
    /\ achievementsData = <<RecB, RecA>>
    /\ Len(children) = 4

\* C8: whenever the widget holds a track, after the render or resize that
\* last evaluated the rule the track's animation duration is 15s for a
\* viewport width up to 480, 20s for a width above 480 and up to 768, and 30s
\* above: it reflects the width of the most recent render or resize.
C8_ResponsiveSpeed ==
    tickerTrack = "track" =>
        animationDuration = IF innerWidth <= 480 THEN "15s"
                            ELSE IF innerWidth <= 768 THEN "20s"
                            ELSE "30s"

\* A resize listener has run since the last render, at width 600.
C8_Witness ==
    /\ tickerTrack = "track"
    /\ resized
    /\ innerWidth = 600
    /\ animationDuration = "20s"

\* C9: a render with no #ticker-track element in the document aborts without
\* throwing, leaves the widget without a track, creates no element, attaches
\* no listener and changes no style of the track; while the widget has no
\* track, pointer, resize and timer handlers change nothing.
C9_MissingTargetNoOp ==
    [][/\ (~trackInDoc /\ RenderCall) =>
             /\ tickerTrack' = "null"
             /\ pc' # "initFailed"
             /\ UNCHANGED <<children, hoverListeners, resizeListeners,
                            animationDuration, animationPlayState, trackOpacity>>
       /\ (tickerTrack = "null"
             /\ (MouseEnter \/ MouseLeave \/ Resize(Widths) \/ FadeTimeout)) =>
             UNCHANGED <<children, animationDuration, animationPlayState,
                         trackOpacity>>]_vars

\* A render was aborted for want of the element after earlier renders had
\* attached listeners; since then a resize listener has run and the pointer
\* has entered the re-inserted element, and neither changed a style.
C9_Witness ==
    /\ tickerTrack = "null"
    /\ lastOp \in {"update", "add", "remove", "filter"}
    /\ resizeListeners > 0 /\ resized
    /\ innerWidth = 480 /\ animationDuration = "30s"
    /\ trackInDoc /\ hoverListeners > 0
    /\ lastPointer = "enter" /\ animationPlayState # "paused"

\* The widget is constructed and init has not rendered yet.
Loading == pc \in {"fetching", "parsing", "loaded"}

\* C10: startup has no terminal failure state.  The widget goes from
\* Uninitialized to Loading; when the fetch and the body parse settle it
\* reaches Ready, by a step of init that renders the collection; init's catch
\* block is never entered; and from Ready every step, the mutation calls
\* included, stays in Ready.
C10_StartupReachesReady ==
    /\ [](pc \notin {"loadThrew", "initFailed"})
    /\ (pc = "uninit") ~> Loading
    /\ Loading ~> (pc = "ready")
    /\ [][(pc # "ready" /\ pc' = "ready") =>
             /\ pc = "loaded"
             /\ trackInDoc =>
                   /\ tickerTrack' = "track"
                   /\ StripShowsTwice(children', achievementsData')]_vars
    /\ [][pc = "ready" => pc' = "ready"]_vars

\* The fetch rejected and the widget is Ready with the fallback rendered and
\* the container faded in.
C10_Witness ==
    /\ pc = "ready"
    /\ lastOp = "load" /\ lastArg.outcome.net = "reject"
    /\ tickerTrack = "track"
    /\ isLoaded
    /\ Len(children) = 6

\* C11: updateAchievements(list) discards the current collection and installs
\* the list as given: the collection afterwards is exactly list, in list's
\* order and not re-sorted, and a rendered track shows that order twice.
C11_UpdateVerbatim ==
    lastOp = "update" =>
        /\ achievementsData = lastArg.list
        /\ tickerTrack = "track" =>
              /\ StripShowsTwice(children, lastArg.list)
              /\ TextsOf(children) =
                    [i \in 1..Len(lastArg.list) |-> lastArg.list[i].text]
                       \o [i \in 1..Len(lastArg.list) |-> lastArg.list[i].text]

\* The list [a(priority 2), b(priority 1)] was installed and is shown in
\* that order, not in priority order.
C11_Witness ==
    /\ lastOp = "update" /\ lastArg.list = <<RecA, RecB>>
    /\ tickerTrack = "track"
    /\ ~SortedByPriority(achievementsData)
    /\ TextsOf(children) = <<"X", "Y", "X", "Y">>

\* data with every record of the given id taken out, the others in order.
RECURSIVE WithoutId(_, _)
WithoutId(data, id) ==
    IF data = <<>> THEN <<>>
    ELSE IF Has(Head(data), "id") /\ Head(data).id = id THEN WithoutId(Tail(data), id)
    ELSE <<Head(data)>> \o WithoutId(Tail(data), id)

\* The strip shows the collection: no assignment of the collection has gone
\* unrendered.
StripCurrent == tickerTrack = "track" /\ children = TrackContent(achievementsData)

\* C12 as claimed: removeAchievement(id) with an id no record has leaves the
\* collection unchanged and a rendered strip with the same content as before.
C12_AbsentIdSameStrip ==
    [][(lastOp' = "remove" /\ removeAchievement(lastArg'.id)
          /\ ~HoldsId(achievementsData, lastArg'.id)
          /\ tickerTrack = "track" /\ tickerTrack' = "track") =>
          children' = children]_vars

\* C12, amended: removeAchievement(id) removes every record whose id is id,
\* duplicates included, and keeps the other records in their prior relative
\* order; when no record has the id the collection is unchanged, and the
\* strip is rendered again with the same content when it showed the
\* collection before the call.
C12_RemoveEveryRecordWithId ==
    [][(lastOp' = "remove" /\ removeAchievement(lastArg'.id)) =>
          /\ achievementsData' = WithoutId(achievementsData, lastArg'.id)
          /\ ~HoldsId(achievementsData', lastArg'.id)
          /\ ~HoldsId(achievementsData, lastArg'.id) =>
                /\ achievementsData' = achievementsData
                /\ (StripCurrent /\ tickerTrack' = "track") =>
                      children' = children
                /\ tickerTrack' = "track" =>
                      StripShowsTwice(children', achievementsData)]_vars

\* A record with id a was added to a collection that already held one, and
\* removeAchievement("a") then took both out, leaving b.
C12_Witness ==
    /\ lastOp = "remove" /\ lastArg.id = "a"
    /\ snap.phase = "removed" /\ snap.data = <<RecA2, RecB>>
    /\ achievementsData = <<RecB>>
    /\ tickerTrack = "track" /\ TextsOf(children) = <<"Y", "Y">>

\* C13: addAchievement(r) on a collection of records leaves the stable
\* ascending-by-priority sort of the prior collection followed by r: one
\* record more, every prior record kept, r after all records of its priority,
\* and a collection that was installed unsorted is sorted as a whole.
C13_AddSortsWhole ==
    [][(lastOp' = "add" /\ addAchievement(lastArg'.record)
          /\ HavePriority(achievementsData)) =>
          LET r == lastArg'.record
              equal == OfPriority(achievementsData', r.priority)
          IN  /\ IsStableSortOf(achievementsData', Append(achievementsData, r))
              /\ Len(achievementsData') = Len(achievementsData) + 1
              /\ equal[Len(equal)] = r
              /\ SortedByPriority(achievementsData')
              /\ tickerTrack' = "track" =>
                    StripShowsTwice(children', achievementsData')]_vars

\* A record of priority 1 was added to the unsorted [a(2), b(1)]: it stands
\* after b and before a.
C13_Witness ==
    /\ lastOp = "add" /\ lastArg.record = RecA2
    /\ snap.phase = "added" /\ snap.data = <<RecA, RecB>>
    /\ achievementsData = <<RecB, RecA2, RecA>>
    /\ tickerTrack = "track" /\ TextsOf(children) = <<"Y", "Z", "X", "Y", "Z", "X">>

\* C14 as claimed: after any interleaving of pointer events, renders and
\* resize events, the play-state of the track is paused exactly when the most
\* recent pointer event on the track was an enter.
C14_PausedIffLastEnter ==
    (animationPlayState = "paused") <=> (lastPointer = "enter")

\* C14, amended: a pointer-enter on the track sets its play-state to paused
\* and a pointer-leave sets it to running while the widget holds the track;
\* a pointer event that arrives while the widget holds no track (its last
\* render found no element) changes nothing; renders and resizes never change
\* the play-state.  So the play-state is paused exactly when the most recent
\* pointer event that arrived while the widget held the track was an enter,
\* however many times the handlers were attached.
C14_PausedIffLastHandledEnter ==
    /\ [](/\ (animationPlayState = "paused") <=> (lastPointerHandled = "enter")
          /\ (animationPlayState = "running") <=> (lastPointerHandled = "leave"))
    /\ [][(MouseEnter /\ tickerTrack = "track") =>
             (animationPlayState' = "paused" /\ lastPointerHandled' = "enter")]_vars
    /\ [][(MouseLeave /\ tickerTrack = "track") =>
             (animationPlayState' = "running" /\ lastPointerHandled' = "leave")]_vars
    /\ [][((MouseEnter \/ MouseLeave) /\ tickerTrack = "null") =>
             UNCHANGED <<animationPlayState, lastPointerHandled>>]_vars
    /\ [][(RenderCall \/ Resize(Widths)) => UNCHANGED animationPlayState]_vars

\* The pointer left the track while the widget held it, the handlers have
\* been attached more than once, a resize listener has run since the last
\* render, and a later pointer-enter arrived while the widget held no track:
\* the play-state is still running.
C14_Witness ==
    /\ tickerTrack = "track"
    /\ hoverListeners > 1 /\ resized
    /\ lastPointerHandled = "leave" /\ lastPointer = "enter"
    /\ animationPlayState = "running"

\* C15: after any number of renders exactly one resize listener of the
\* widget is registered on the window.
C15_OneResizeListener ==
    tickerTrack = "track" => resizeListeners = 1

\* A render is known to have been called: by a mutation call since the load
\* settled or before it, by init, or one that attached listeners.
RenderCalled ==
    \/ lastOp \in {"update", "add", "remove", "filter"}
    \/ pc = "ready"
    \/ hoverListeners > 0

\* C16 as claimed: construction begins only after the DOMContentLoaded event
\* and the startup delay; the first render happens only after the load has
\* settled; the container's opacity is set to 1 only after the first render
\* and the track's opacity only after a further delay; isLoaded becomes true
\* only after the first render and only if the container exists.
C16_StartupOrder ==
    /\ pc \in {"uninit", "delay"} =>
          (achievementsData = <<>> /\ tickerTrack = "null" /\ ~RenderCalled)
    /\ RenderCalled => LoadReturned
    /\ containerOpacity = "1" => (pc = "ready" /\ RenderCalled)
    /\ trackOpacity = "1" =>
          (pc = "ready" /\ ~fadeTimer /\ (containerInDoc => containerOpacity = "1"))
    /\ isLoaded => (pc = "ready" /\ RenderCalled /\ containerInDoc)

\* C16, amended: construction begins only after the DOMContentLoaded event
\* and the startup delay; the render made by init happens only after the load
\* has settled, and a render before that is one made by a mutation call of
\* the host before init has gone on; the container's opacity is set to 1
\* only by init after its render and the track's opacity only after a further
\* delay; isLoaded becomes true only then and only if the container exists.
C16_StartupOrderOfInit ==
    /\ [](/\ pc \in {"uninit", "delay"} =>
                (achievementsData = <<>> /\ tickerTrack = "null" /\ ~RenderCalled)
          /\ (RenderCalled /\ pc # "ready") => Loading
          /\ containerOpacity = "1" => (pc = "ready" /\ RenderCalled)
          /\ trackOpacity = "1" =>
                (pc = "ready" /\ ~fadeTimer /\ (containerInDoc => containerOpacity = "1"))
          /\ isLoaded => (pc = "ready" /\ RenderCalled /\ containerInDoc)
          /\ (pc = "ready" /\ containerInDoc) => (isLoaded /\ containerOpacity = "1"))
    /\ [][pc' # pc =>
             \/ pc = "uninit" /\ pc' = "delay"
             \/ pc = "delay" /\ pc' = "fetching"
             \/ pc = "fetching" /\ pc' \in {"parsing", "loaded"}
             \/ pc = "parsing" /\ pc' = "loaded"
             \/ pc = "loaded" /\ pc' = "ready"]_vars
    /\ [][(tickerTrack' # tickerTrack /\ pc' # "ready") => (Loading /\ MutationCall)]_vars
    /\ [][(pc # "ready" /\ pc' = "ready") =>
             /\ InitContinue
             /\ fadeTimer' /\ trackOpacity' = trackOpacity]_vars
    /\ [][trackOpacity' # trackOpacity => (FadeTimeout /\ pc = "ready")]_vars

\* The host rendered once while the load was pending; the load has settled
\* since, init has rendered, the container is faded in and the timeout has
\* set the track's opacity.
C16_Witness ==
    /\ pc = "ready" /\ lastOp = "load"
    /\ resizeListeners = 2
    /\ tickerTrack = "track"
    /\ isLoaded /\ containerOpacity = "1"
    /\ ~fadeTimer /\ trackOpacity = "1"

\* The collections the Loader can leave for an outcome of the fetch and the
\* parse.
LoadedOrFallback(o) ==
    IF HasArray(o) THEN SortOutcomes(o.items)
    ELSE IF FieldMissing(o) THEN {<<>>}
    ELSE {Fallback}

\* C17 as claimed: the collection and the strip at Ready are the loaded or
\* fallback sequence, whatever mutation calls ran during Loading.
C17_ReadyShowsLoaded ==
    [][(pc = "loaded" /\ pc' = "ready") =>
          /\ achievementsData' \in LoadedOrFallback(lastArg'.outcome)
          /\ tickerTrack' = "track" =>
                \E d \in LoadedOrFallback(lastArg'.outcome) :
                    StripShowsTwice(children', d)]_vars

\* C17, amended: the Loader populates the collection exactly once, and what a
\* mutation call made before the load settles left in the collection does
\* not survive: when the load settles the collection is the loaded or
\* fallback sequence, whatever it was before.  A mutation call made between
\* that and init's render does survive: init renders the collection as it is
\* when it goes on, which is the loaded or fallback sequence when no call
\* came between.
C17_LoadOverwritesPendingCalls ==
    /\ [](lastOp = "load" =>
             /\ snap.phase \in {"loaded", "overwrote"}
             /\ achievementsData \in LoadedOrFallback(lastArg.outcome)
             /\ (pc = "ready" /\ tickerTrack = "track") =>
                   StripShowsTwice(children, achievementsData))
    /\ [][lastOp' = "load" =>
             \/ pc \in {"fetching", "parsing"} /\ pc' = "loaded"
             \/ UNCHANGED <<lastOp, lastArg, achievementsData>>]_vars
    /\ [][(pc = "loaded" /\ pc' = "ready") =>
             /\ achievementsData' = achievementsData
             /\ trackInDoc =>
                   StripShowsTwice(children', achievementsData)]_vars
    /\ [][LoadReturned => LoadReturned']_vars

\* Mutation calls ran and rendered while the load was pending; the load then
\* settled with the payload [a, b] and overwrote what they left; before init
\* went on, removeAchievement("a") ran, and the widget is Ready with b only
\* in the collection and in the strip.
C17_Witness ==
    /\ pc = "ready" /\ lastOp = "remove" /\ lastArg.id = "a"
    /\ lastArg.outcome.items = <<RecA, RecB>>
    /\ resizeListeners > 2
    /\ achievementsData = <<RecB>>
    /\ tickerTrack = "track" /\ TextsOf(children) = <<"Y", "Y">>

\* The collections a mutation call can leave, from the call and the
\* collection before it.
AfterCall(op, arg, data) ==
    CASE op = "update" -> {arg.list}
      [] op = "add" -> SortOutcomes(Append(data, arg.record))
      [] op = "remove" -> {WithoutId(data, arg.id)}
      [] op = "filter" -> {IF arg.category = "all" THEN data
                           ELSE KeepCategory(data, arg.category)}
      [] OTHER -> {data}

\* C18: every mutation call changes the collection whether or not the track
\* element is there: without the element the call changes the collection as
\* it does with it and renders nothing, and a later call made with the
\* element in place renders the collection all the calls have left.
C18_CollectionIndependentOfRender ==
    [][MutationCall =>
          /\ achievementsData' \in AfterCall(lastOp', lastArg', achievementsData)
          /\ ~trackInDoc => (tickerTrack' = "null" /\ children' = children)
          /\ trackInDoc =>
                /\ tickerTrack' = "track"
                /\ StripShowsTwice(children', achievementsData')]_vars

\* filterByCategory dropped records while the element was missing, and the
\* first render that found the element, a filterByCategory("all"), shows
\* only what the earlier call left.
C18_Witness ==
    /\ snap.phase = "refiltered" /\ ~snap.rendered
    /\ tickerTrack = "track" /\ hoverListeners = 1
    /\ lastOp = "filter" /\ lastArg.category = "all"
    /\ snap.data = Fallback
    /\ achievementsData = <<Fallback[2]>>
    /\ TextsOf(children) = <<Fallback[2].text, Fallback[2].text>>

====
